---- MODULE Spec2Model ----
(***************************************************************************)
(* YouTube Trending Analyzer MVP: the trend-scoring pipeline.              *)
(*                                                                         *)
(* Spec      the request pipeline: validation, the cache wrapper           *)
(*           get_trending_results, expansion, collection, batched scoring  *)
(*           under the monthly budget, ranking, cache write.               *)
(* LiveSpec  Spec with the fairness of the server's scheduling.            *)
(* ScorerSpec the pipeline with failing batch requests and stored scores   *)
(*           that go stale, for two topics of one country.                 *)
(* FnSpec    the pure functions (MOMENTUM score, engagement rate, the      *)
(*           collector's merge, term expansion, invalidation, the search   *)
(*           form, batching, ranking, the API client's error mapping and   *)
(*           getBackendInfo) applied to inputs drawn from bounded sets.    *)
(* PageSpec  the web client's home page: search form, cache controls,      *)
(*           results, and the searches in flight.                          *)
(* PanelSpec an analytics panel (CostAnalytics) and its fetches.           *)
(* DebounceSpec the debounced function of lib/utils with a clock.          *)
(***************************************************************************)
EXTENDS Integers, Sequences, FiniteSets, TLC

VARIABLES
    \* ---- request pipeline (Spec, LiveSpec) ----
    pc,            \* pc[r]: the stage request r is at
    req,           \* req[r]: the submitted query (topic, country, timeframe, limit)
    connected,     \* connected[r]: the caller of r is still connected
    run,           \* run[r]: the data of r's pipeline run
    response,      \* response[r]: what r's caller is answered
    cache,         \* the redis store: cache key -> serialized payload, or Miss
    monthly_cost,  \* the cumulative estimated LLM cost of the month
    relevance_table,   \* table country_relevance, the persisted scores: country -> video -> score, or none
    \* ---- pure functions (FnSpec) ----
    fnIn,          \* the inputs drawn for the function under test
    fnOut,         \* the outputs of the last application
    \* ---- web client (PageSpec, PanelSpec, DebounceSpec) ----
    homePage,      \* HomePage with its SearchForm and CacheControls
    panel,         \* an analytics panel (CostAnalytics, SystemMetrics)
    debouncer      \* the timers of a debounced function

vars == <<pc, req, connected, run, response, cache, monthly_cost, relevance_table,
          fnIn, fnOut, homePage, panel, debouncer>>
pipeVars == <<pc, req, connected, run, response, cache, monthly_cost, relevance_table>>
clientVars == <<homePage, panel, debouncer>>
fnVars == <<fnIn, fnOut, clientVars>>

None == "none"

\* no function has been applied yet
NoOutputs ==
    [score |-> <<>>, engagement |-> <<>>, client |-> <<>>, collected |-> <<>>,
     terms |-> <<>>, store |-> <<>>, form |-> <<>>, batches |-> <<>>,
     ranked |-> <<>>, thrown |-> <<>>, info |-> <<>>]

\* DEFAULT_FORM_VALUES; limit is NEXT_PUBLIC_DEFAULT_LIMIT or 10. A query is
\* a text, see the web client below; <<>> is the empty one.
DEFAULT_FORM_VALUES(limit) ==
    [query |-> <<>>, country |-> "US", timeframe |-> "48h", limit |-> limit]

\* HomePage, SearchForm and CacheControls after the first render
NoPage ==
    [results |-> <<>>,           \* HomePage: null, or the TrendingResponse shown
     isLoading |-> FALSE,
     formData |-> DEFAULT_FORM_VALUES(10),
     errors |-> "",              \* SearchForm: errors.query, "" when undefined
     validating |-> <<>>,        \* the query a debounced validation is pending for
     inflight |-> {},            \* calls of analyzeTrending not yet settled
     searches |-> 0,             \* calls of handleSearch so far
     shown |-> 0,                \* the search whose outcome results holds
     sent |-> {},                \* the parameters of every search started
     requests |-> {},            \* the endpoints requested so far
     isClearing |-> FALSE,       \* CacheControls
     showConfirm |-> FALSE,
     clearing |-> <<>>,          \* the call of handleClearCache not yet settled
     clears |-> 0,               \* calls of handleClearCache so far
     lastClear |-> <<>>]         \* what the last settled call did

\* CostAnalytics (SystemMetrics with hours for days) before its first effect
NoPanel ==
    [mounted |-> FALSE,
     days |-> 7,
     isLoading |-> TRUE,
     error |-> FALSE,            \* error !== null
     costData |-> <<>>,          \* null, or the period the data shown are for
     inflight |-> {},            \* fetches not yet settled
     fetches |-> 0]              \* calls of loadCostData so far
\* debounce(func, delay) right after the call that builds the debounced
\* function, with the clock and the timers of the page
NoDebouncer ==
    [now |-> 0,
     timeoutId |-> 0,            \* 0: undefined
     timers |-> {},              \* timeouts set and neither run nor cleared
     nextId |-> 1,
     calls |-> <<>>,             \* the calls of the debounced function
     invocations |-> <<>>]       \* the invocations of func

\* ------------------------------------------------------------------ bounds
MaxReqs == 2          \* concurrent requests
BatchSize == 2        \* videos per scoring batch (LLM_BATCH_SIZE, scaled down)
BudgetLeft == 3       \* what is left of the monthly budget when the model starts
MaxCount == 2         \* largest view / like / comment count drawn in FnSpec
MaxListLen == 2       \* longest provider result list drawn in FnSpec
TargetPool == 2       \* candidate-pool size at which tier expansion stops
MaxRuns == 3          \* runs of equal characters in a text typed into the form
MaxUnscored == 5      \* longest list of videos handed to the batching in FnSpec
MaxRanked == 4        \* longest list of candidates handed to the ranking in FnSpec
MaxSearches == 3      \* searches started from the home page in PageSpec
MaxClears == 2        \* calls of handleClearCache in PageSpec
MaxFetches == 4       \* calls of loadCostData in PanelSpec
Delay == 2            \* delay of the debounced function in DebounceSpec, in ticks
MaxTime == 6          \* ticks of the clock in DebounceSpec
MaxCalls == 4         \* calls of the debounced function in DebounceSpec

\* ------------------------------------------------------- program constants
MinQueryLen == 2
MaxQueryLen == 100
MinLimit == 1
MaxLimit == 50
LLM_MONTHLY_BUDGET == 50
CACHE_TTL_SEARCH == 7200
MaxRetries == 1

SupportedCountries == {"DE", "US", "FR", "JP"}
SupportedTimeframes == {"24h", "48h", "7d"}

timeframe_hours(timeframe) ==
    CASE timeframe = "24h" -> 24
      [] timeframe = "48h" -> 48
      [] timeframe = "7d" -> 168

\* ------------------------------------------------------------ sequences
Range(s) == {s[i] : i \in DOMAIN s}

NoDuplicates(s) == \A i, j \in DOMAIN s : s[i] = s[j] => i = j

Take(s, n) == SubSeq(s, 1, IF n < Len(s) THEN n ELSE Len(s))

\* ================================================================ MOMENTUM
\* Numbers are exact rationals kept as scaled integers.
\*   views_per_hour, base_momentum : x 1000 * HourScale
\*   country_multiplier            : x 20   (0.5 + 1.5*r, r in tenths)
\*   trending_feed_boost           : x 2    (1.5 or 1.0)
\*   time_decay                    : x 100  (exp(-age/24), two decimals)
HourScale == 336             \* lcm of the timeframe lengths 24, 48, 168

AgeHours == {0, 24, 48}

\* math.exp(-age_hours / 24.0), in hundredths
time_decay(age_hours) ==
    CASE age_hours = 0 -> 100
      [] age_hours = 24 -> 37
      [] age_hours = 48 -> 14

\* engagement_rate = (likes + comments) / max(views, 1), as a fraction
MaxOf(a, b) == IF a > b THEN a ELSE b

engagement_rate(video) ==
    [num |-> video.likes + video.comments, den |-> MaxOf(video.views, 1)]

\* calculateEngagementRate(likes, comments, views) of the web client, a
\* percentage as a fraction
calculateEngagementRate(likes, comments, views) ==
    IF views = 0 THEN [num |-> 0, den |-> 1]
    ELSE [num |-> (likes + comments) * 100, den |-> views]

RateIsZero(rate) == rate.num = 0

base_momentum(video, timeframe) ==
    LET views_per_hour == video.views_in_timeframe * (HourScale \div timeframe_hours(timeframe))
        er == engagement_rate(video)
        \* engagement_rate * video.views: the denominator is views or 1
        engagement == (er.num * video.views) \div er.den
    IN  views_per_hour * 6 * 100
        + engagement * 3 * HourScale * 100
        + video.views * time_decay(video.age_hours) * 1 * HourScale

\* variant: the relevance score does not enter the multiplier
country_multiplier_Flat(country_relevance) == 20

country_multiplier(country_relevance) == 10 + 3 * country_relevance

trending_feed_boost(is_in_trending_feed) == IF is_in_trending_feed THEN 3 ELSE 2

calculate_v7_trending_score(video, country_relevance, timeframe) ==
    LET base == base_momentum(video, timeframe)
        mult == country_multiplier(country_relevance)
        boost == trending_feed_boost(video.is_in_trending_feed)
    IN  [trending_score |-> base * mult * boost,
         base_momentum |-> base,
         country_relevance |-> country_relevance,
         country_multiplier |-> mult,
         trending_boost_applied |-> video.is_in_trending_feed]

\* ============================================================= videos
Videos == {"v1", "v2", "v3", "v4", "v5", "v6"}

\* The counts of each video as the provider reports them.
VideoData ==
    [v \in Videos |->
        CASE v = "v1" -> [views |-> 2, likes |-> 1, comments |-> 0,
                          views_in_timeframe |-> 2, age_hours |-> 0]
          [] v = "v2" -> [views |-> 2, likes |-> 0, comments |-> 1,
                          views_in_timeframe |-> 1, age_hours |-> 24]
          [] v = "v3" -> [views |-> 0, likes |-> 0, comments |-> 0,
                          views_in_timeframe |-> 0, age_hours |-> 48]
          \* as v3, published a day later
          [] v = "v4" -> [views |-> 0, likes |-> 0, comments |-> 0,
                          views_in_timeframe |-> 0, age_hours |-> 24]
          \* old videos nobody reacted to: v6 has twice the views of v5
          [] v = "v5" -> [views |-> 1, likes |-> 0, comments |-> 0,
                          views_in_timeframe |-> 0, age_hours |-> 48]
          [] v = "v6" -> [views |-> 2, likes |-> 0, comments |-> 0,
                          views_in_timeframe |-> 0, age_hours |-> 48]]

\* ======================================================== Candidate Collector
\* what one provider call answers: a failure, or a list of video ids
Failed == [ok |-> FALSE, items |-> <<>>]
Answered(ids) == [ok |-> TRUE, items |-> ids]

Got(outcome) == IF outcome.ok THEN outcome.items ELSE <<>>

\* the ids of s in order of first appearance
RECURSIVE DedupById(_, _)
DedupById(s, seen) ==
    IF s = <<>> THEN <<>>
    ELSE IF Head(s) \in seen THEN DedupById(Tail(s), seen)
         ELSE <<Head(s)>> \o DedupById(Tail(s), seen \cup {Head(s)})

\* (1) keyword search per tier, until the pool reaches TargetPool or the
\*     tiers are exhausted
RECURSIVE SearchTiers(_, _)
SearchTiers(tiers, pool) ==
    IF tiers = <<>> \/ Cardinality(Range(pool)) >= TargetPool THEN pool
    ELSE SearchTiers(Tail(tiers), pool \o Got(Head(tiers)))

\* variant: the two sets are appended without deduplication
MergeCandidates_NoDedup(searched, fed) == searched \o fed

\* (3) merge both sets, deduplicating by provider identifier
MergeCandidates(searched, fed) == DedupById(searched \o fed, {})

\* (4) discard the videos outside the requested window
InWindow(ids, timeframe) ==
    SelectSeq(ids, LAMBDA v : VideoData[v].age_hours <= timeframe_hours(timeframe))

CollectCandidates(tiers, feed, timeframe) ==
    LET searched == SearchTiers(tiers, <<>>)
        fed == Got(feed)
        merged == MergeCandidates(searched, fed)
        kept == InWindow(merged, timeframe)
    IN  [videos |-> kept,
         in_feed |-> Range(fed),
         videos_from_search |-> Len(searched),
         videos_from_trending_feed |-> Len(fed),
         duplicates_removed |-> Len(searched) + Len(fed) - Len(merged),
         all_failed |-> ~feed.ok /\ \A i \in DOMAIN tiers : ~tiers[i].ok]

\* ============================================================ the requests
Reqs == 1..MaxReqs

LongTopic == "aaaaaaaaaaaaaaaaaaaaaaaaaaaaaaaaaaaaaaaaaaaaaaaaaaaaaaaaaaaaaaaaaaaaaaaaaaaaaaaaaaaaaaaaaaaaaaaaaaaaa"

Query(topic, country, timeframe, limit) ==
    [topic |-> topic, country |-> country, timeframe |-> timeframe, limit |-> limit]

\* the queries callers submit: valid ones on two cache keys, and one for
\* each way of being invalid
RequestInputs ==
    { Query("ai", "US", "48h", 1), Query("ai", "US", "48h", 2),
      Query("ai", "JP", "24h", 2),
      Query("", "US", "48h", 2), Query("x", "JP", "48h", 2),
      Query(LongTopic, "US", "48h", 2),
      Query("ai", "XX", "48h", 2), Query("ai", "US", "1h", 2) }

\* variant: any country code is taken
ValidQuery_AnyCountry(q) ==
    /\ Len(q.topic) >= MinQueryLen /\ Len(q.topic) <= MaxQueryLen
    /\ q.timeframe \in SupportedTimeframes
    /\ q.limit >= MinLimit /\ q.limit <= MaxLimit

\* GET /api/mvp/trending parameters
ValidQuery(q) ==
    /\ Len(q.topic) >= MinQueryLen /\ Len(q.topic) <= MaxQueryLen
    /\ q.country \in SupportedCountries
    /\ q.timeframe \in SupportedTimeframes
    /\ q.limit >= MinLimit /\ q.limit <= MaxLimit

\* ======================================================== Fingerprint Cache
\* cache_key = f"trending:{country}:{query}:{timeframe}"
cache_key(query, country, timeframe) == <<"trending", country, query, timeframe>>

KeyOf(q) == cache_key(q.topic, q.country, q.timeframe)

\* the queries of ScorerSpec: two cache keys of one country
ScorerInputs == {Query("ai", "US", "48h", 2), Query("ai video", "US", "48h", 2)}

CacheKeys == {KeyOf(q) : q \in {i \in RequestInputs \cup ScorerInputs : ValidQuery(i)}}

\* json.dumps / json.loads of a payload of strings, numbers, booleans, lists
\* and string-keyed objects
json_dumps(value) == [json |-> value]
json_loads(text) == text.json

\* redis.get(key): <<>> on a miss, else <<entry>>
redis_get(store, key) == store[key]

\* redis.setex(key, ttl, value); writer is the request whose run wrote it
redis_setex(store, key, ttl, value, writer) ==
    [store EXCEPT ![key] = <<[value |-> value, ttl |-> ttl, writer |-> writer]>>]

redis_delete(store, keys) == [k \in DOMAIN store |-> IF k \in keys THEN <<>> ELSE store[k]]

\* variant: the topic of the filter is not looked at
MatchesFilter_CountryOnly(key, country, topic) == country = None \/ key[2] = country

\* the keys invalidate(country?, topic?) removes; None matches everything
MatchesFilter(key, country, topic) ==
    /\ country = None \/ key[2] = country
    /\ topic = None \/ key[3] = topic

\* POST /api/mvp/trending/cache/invalidate: the store afterwards
invalidate(store, country, topic) ==
    redis_delete(store, {k \in DOMAIN store : MatchesFilter(k, country, topic)})

\* TrendingAnalyzerAPI.invalidateCache: the parameters sent; an undefined
\* (None) or empty argument is left out of the request
invalidateCache(country, query) ==
    [country |-> IF country \in {None, ""} THEN None ELSE country,
     query |-> IF query \in {None, ""} THEN None ELSE query]

\* ====================================================== Search-Term Expander
\* CountryProcessor.get_local_search_terms
get_local_search_terms(country, query) ==
    CASE country = "DE" -> <<query \o " deutsch", "deutsche " \o query,
                             query \o " germany", query \o " deutschland">>
      [] country = "US" -> <<query \o " america", "american " \o query,
                             query \o " usa", query \o " us">>
      \* c' stands for c-cedilla, [kanji] and [kana] for the two scripts
      [] country = "FR" -> <<query \o " franc'ais", query \o " france",
                             "franc'ais " \o query, query \o " francais">>
      [] country = "JP" -> <<query \o " nihon[kanji]", query \o " japan",
                             "japanese " \o query, query \o " nihon[kana]">>

\* the circuit breaker in front of the trends source: while it is open the
\* source is not called and there is no answer
google_trends(breaker_open, answer) == IF breaker_open THEN Failed ELSE answer

\* Tier 1: when the trends source answers, the original query and then the
\* trend-derived terms; else the Country Processor's static terms
expand_search_terms(query, country, trends) ==
    IF trends.ok THEN DedupById(<<query>> \o trends.items, {})
    ELSE get_local_search_terms(country, query)

TrendsAnswers == {Failed, Answered(<<"ai video", "ai">>)}

\* ========================================================== Relevance Scorer
\* the relevance (in tenths) the language model gives each video
LLMScore ==
    [v \in Videos |-> CASE v = "v1" -> 9 [] v = "v2" -> 3 [] v = "v3" -> 10
                         [] v = "v4" -> 5 [] v = "v5" -> 10 [] v = "v6" -> 0]

BatchCosts == {1, 2}     \* the estimated cost of one batch

NoScores == [v \in Videos |-> <<>>]

\* table country_relevance, PRIMARY KEY (video_id, country): no row yet
NoRelevance == [country \in SupportedCountries |-> [v \in Videos |-> <<>>]]

\* the video has a score for the country that is within its validity
HasValidScore(store, v, country) ==
    store[country][v] # <<>> /\ store[country][v][1].valid

\* variant: every video is taken as needing a score
get_unanalyzed_videos_All(store, videos, country) == videos

\* the videos of a run that need a score: those without one and those
\* whose score is stale, in the order collected
get_unanalyzed_videos(store, videos, country) ==
    SelectSeq(videos, LAMBDA v : ~HasValidScore(store, v, country))

\* store_country_relevance(relevance_scores, country)
store_country_relevance(store, batch, country) ==
    [store EXCEPT ![country] = [v \in Videos |->
        IF v \in Range(batch)
        THEN <<[relevance_score |-> LLMScore[v], valid |-> TRUE]>>
        ELSE @[v]]]

\* the scores a run starts from: what the store holds within validity
StoredScores(store, videos, country) ==
    [v \in Videos |->
        IF v \in Range(videos) /\ HasValidScore(store, v, country)
        THEN <<store[country][v][1].relevance_score>> ELSE <<>>]

\* variant: a batch is formed only when BatchSize videos are left
BatchAt_FullOnly(videos, cursor) ==
    IF cursor + BatchSize - 1 <= Len(videos)
    THEN SubSeq(videos, cursor, cursor + BatchSize - 1)
    ELSE <<>>

\* the batch that starts at position cursor of the videos to score
BatchAt(videos, cursor) ==
    SubSeq(videos, cursor,
           IF cursor + BatchSize - 1 < Len(videos) THEN cursor + BatchSize - 1
           ELSE Len(videos))

\* gemini_analyze_batch(unanalyzed, country, batch_size): the batches of one
\* run in the order they are formed, the cursor moving on by batch_size
\* until it has passed the last video
RECURSIVE BatchesFrom(_, _)
BatchesFrom(videos, cursor) ==
    IF cursor > Len(videos) THEN <<>>
    ELSE <<BatchAt(videos, cursor)>> \o BatchesFrom(videos, cursor + BatchSize)

gemini_analyze_batch(videos) == BatchesFrom(videos, 1)

\* variant: no gate in front of a batch
WithinBudget_NoCheck(spent, estimate) == TRUE

\* the budget check that gates a batch
WithinBudget(spent, estimate) == spent + estimate <= LLM_MONTHLY_BUDGET

\* ============================================================ Momentum Ranker
\* variant: an unscored video is ranked as one of relevance 0
relevance_multiplier_Penalty(score) ==
    IF score = <<>> THEN country_multiplier(0) ELSE country_multiplier(score[1])

\* unscored -> multiplier 1.0
relevance_multiplier(score) ==
    IF score = <<>> THEN 20 ELSE country_multiplier(score[1])

final_score(v, score, in_feed, timeframe) ==
    base_momentum(VideoData[v], timeframe)
        * relevance_multiplier(score) * trending_feed_boost(in_feed)

\* variant: the final score alone decides
RanksBefore_ScoreOnly(a, b, scores, feed, timeframe) ==
    final_score(a, scores[a], a \in feed, timeframe)
        > final_score(b, scores[b], b \in feed, timeframe)

\* a ranks before b: higher final score, then more views, then more recent
RanksBefore(a, b, scores, feed, timeframe) ==
    \E sa \in {final_score(a, scores[a], a \in feed, timeframe)},
       sb \in {final_score(b, scores[b], b \in feed, timeframe)} :
        \/ sa > sb
        \/ sa = sb /\ VideoData[a].views > VideoData[b].views
        \/ sa = sb /\ VideoData[a].views = VideoData[b].views
                   /\ VideoData[a].age_hours < VideoData[b].age_hours

\* the candidate at position j of ids comes before the one at position i;
\* full ties keep the order of collection
Precedes(j, i, ids, scores, feed, timeframe) ==
    \/ RanksBefore(ids[j], ids[i], scores, feed, timeframe)
    \/ ~RanksBefore(ids[i], ids[j], scores, feed, timeframe) /\ j < i

\* the sorted list: position p holds the candidate that p - 1 others precede
RankAt(p, ids, scores, feed, timeframe) ==
    ids[CHOOSE i \in DOMAIN ids :
            Cardinality({j \in DOMAIN ids :
                Precedes(j, i, ids, scores, feed, timeframe)}) = p - 1]

RankVideos(ids, scores, feed, timeframe) ==
    [p \in 1..Len(ids) |-> RankAt(p, ids, scores, feed, timeframe)]

\* one entry of results; id is the video at this rank, bound once
ResultEntry(v, rank, scores, feed, timeframe) ==
    LET entry(id) ==
            [rank |-> rank, video_id |-> id,
             views |-> VideoData[id].views,
             trending_score |-> final_score(id, scores[id], id \in feed, timeframe),
             country_relevance_score |-> scores[id],
             is_in_trending_feed |-> id \in feed]
    IN  CHOOSE e \in {entry(id) : id \in {v}} : TRUE

\* variant: a run without candidates answers a failure
BuildPayload_EmptyIsError(q, collected, scores, cost) ==
    LET ranked == RankVideos(collected.videos, scores, collected.in_feed, q.timeframe)
    IN  [success |-> collected.videos # <<>>, query |-> q.topic, country |-> q.country,
         timeframe |-> q.timeframe,
         results |-> [i \in DOMAIN ranked |->
                        ResultEntry(ranked[i], i, scores, collected.in_feed, q.timeframe)],
         metadata |-> [total_analyzed |-> Len(collected.videos),
                       llm_analyzed |-> Cardinality({v \in Videos : scores[v] # <<>>}),
                       cache_hit |-> FALSE,
                       trending_feed_matches |->
                           Cardinality(Range(collected.videos) \cap collected.in_feed),
                       llm_cost |-> cost]]

\* the payload perform_trending_analysis returns
BuildPayload(q, collected, scores, cost) ==
    LET ranked == RankVideos(collected.videos, scores, collected.in_feed, q.timeframe)
    IN  [success |-> TRUE, query |-> q.topic, country |-> q.country,
         timeframe |-> q.timeframe,
         results |-> [i \in DOMAIN ranked |->
                        ResultEntry(ranked[i], i, scores, collected.in_feed, q.timeframe)],
         metadata |-> [total_analyzed |-> Len(collected.videos),
                       llm_analyzed |-> Cardinality({v \in Videos : scores[v] # <<>>}),
                       cache_hit |-> FALSE,
                       trending_feed_matches |->
                           Cardinality(Range(collected.videos) \cap collected.in_feed),
                       llm_cost |-> cost]]

\* variant: the endpoint answers the whole list
ApiResponse_NoLimit(payload, limit) == payload

\* the endpoint answers the first limit entries of what the pipeline returned
ApiResponse(payload, limit) == [payload EXCEPT !.results = Take(@, limit)]

ErrorResponse(q) ==
    [success |-> FALSE, query |-> q.topic, country |-> q.country,
     timeframe |-> q.timeframe, results |-> <<>>,
     metadata |-> [total_analyzed |-> 0, llm_analyzed |-> 0, cache_hit |-> FALSE,
                   trending_feed_matches |-> 0, llm_cost |-> 0]]

\* ========================================================= Query Orchestrator
RunStages == {"expand", "collect", "score", "rank", "cache_write"}

NoQuery == Query("", "", "", 0)

NoRun ==
    [terms |-> <<>>,
     collected |-> CollectCandidates(<<>>, Failed, "48h"),
     scores |-> NoScores, cursor |-> 1, cost |-> 0,
     formed |-> FALSE,     \* the Relevance Scorer has formed the run's batches
     pending |-> <<>>,     \* the videos it found needing a score
     attempts |-> 0,       \* failed sends of the batch at the cursor
     sends |-> <<>>,       \* the batch requests sent: where, which videos, outcome
     budget_exceeded |-> FALSE,
     overdue |-> FALSE,    \* the overall wall-clock budget ran out during the run
     payload |-> <<>>,
     hit |-> FALSE,        \* answered from the cache
     cache_error |-> FALSE, \* a call to the cache raised during this request
     source |-> 0]         \* the request whose run wrote what this one was answered

NoResponse == <<>>

PipeInit ==
    /\ pc = [r \in Reqs |-> "idle"]
    /\ req = [r \in Reqs |-> NoQuery]
    /\ connected = [r \in Reqs |-> TRUE]
    /\ run = [r \in Reqs |-> NoRun]
    /\ response = [r \in Reqs |-> NoResponse]
    /\ cache = [k \in CacheKeys |-> <<>>]
    /\ monthly_cost = LLM_MONTHLY_BUDGET - BudgetLeft
    /\ relevance_table = NoRelevance

FnIdle ==
    /\ fnIn = [kind |-> "idle"]
    /\ fnOut = NoOutputs
    /\ homePage = NoPage
    /\ panel = NoPanel
    /\ debouncer = NoDebouncer

Init == PipeInit /\ FnIdle

\* A caller sends a query. An invalid one is rejected before any stage runs.
Submit(r, q) ==
    /\ pc[r] = "idle"
    /\ req' = [req EXCEPT ![r] = q]
    /\ IF ValidQuery(q)
       THEN /\ pc' = [pc EXCEPT ![r] = "cache_check"]
            /\ UNCHANGED response
       ELSE /\ pc' = [pc EXCEPT ![r] = "rejected"]
            /\ response' = [response EXCEPT ![r] = <<ErrorResponse(q)>>]
    /\ UNCHANGED <<connected, run, cache, monthly_cost, relevance_table, fnVars>>

\* get_trending_results: cached = redis.get(cache_key); if cached: return
\* json.loads(cached)
\* redis_up: the call reaches the store; when it does not, redis.get raises
\* and nothing in get_trending_results catches it
CacheCheck(r, redis_up) ==
    /\ pc[r] = "cache_check"
    /\ LET cached == redis_get(cache, KeyOf(req[r]))
       IN  IF ~redis_up
           THEN /\ pc' = [pc EXCEPT ![r] = "failed"]
                /\ run' = [run EXCEPT ![r].cache_error = TRUE]
                /\ response' = [response EXCEPT ![r] = <<ErrorResponse(req[r])>>]
           ELSE IF cached # <<>>
           THEN /\ pc' = [pc EXCEPT ![r] = "done"]
                /\ run' = [run EXCEPT ![r].hit = TRUE, ![r].source = cached[1].writer]
                /\ response' = [response EXCEPT ![r] =
                        <<ApiResponse(json_loads(cached[1].value), req[r].limit)>>]
           ELSE /\ pc' = [pc EXCEPT ![r] = "expand"]
                /\ UNCHANGED <<run, response>>
    /\ UNCHANGED <<req, connected, cache, monthly_cost, relevance_table, fnVars>>

\* EXPAND: the Search-Term Expander
Expand(r, trends) ==
    /\ pc[r] = "expand"
    /\ run' = [run EXCEPT ![r].terms =
            expand_search_terms(req[r].topic, req[r].country, trends)]
    /\ pc' = [pc EXCEPT ![r] = "collect"]
    /\ UNCHANGED <<req, connected, response, cache, monthly_cost, relevance_table, fnVars>>

\* what the providers answer a run: each call fails or answers its list
TierAnswers ==
    {<<t1, t2, t3>> : t1 \in {Failed, Answered(<<"v1", "v2">>)},
                      t2 \in {Failed, Answered(<<"v2", "v3">>)},
                      t3 \in {Failed, Answered(<<"v3">>)}}

FeedAnswers == {Failed, Answered(<<"v3", "v1">>)}

\* COLLECT: the Candidate Collector
Collect(r, tiers, feed) ==
    /\ pc[r] = "collect"
    /\ run' = [run EXCEPT ![r].collected = CollectCandidates(tiers, feed, req[r].timeframe),
                          ![r].terms = <<>>]
    /\ pc' = [pc EXCEPT ![r] = "score"]
    /\ UNCHANGED <<req, connected, response, cache, monthly_cost, relevance_table, fnVars>>

\* variant: a batch whose request failed is skipped at once
RetryAllowed_Never(attempts) == FALSE

\* a batch whose request failed as a whole is sent again once
RetryAllowed(attempts) == attempts < MaxRetries

\* SCORE: the Relevance Scorer. On entry it reads the persisted scores and
\* forms the batches of the videos that need one; then one step per batch
\* request. The budget check gates a batch and books its estimate before
\* the batch is first sent. A request that fails as a whole is sent once
\* more, then its batch is skipped. The stage ends when no batch is left.
Score(r, estimate, replied) ==
    /\ pc[r] = "score"
    /\ LET country == req[r].country
           videos == run[r].pending
           cursor == run[r].cursor
           batch == BatchAt(videos, cursor)
           booked == IF run[r].attempts = 0 THEN estimate ELSE 0
           sent == Append(run[r].sends,
                          [cursor |-> cursor, videos |-> batch, ok |-> replied])
       IN  IF ~run[r].formed
           THEN /\ run' = [run EXCEPT
                        ![r].formed = TRUE,
                        ![r].pending = get_unanalyzed_videos(relevance_table,
                                            run[r].collected.videos, country),
                        ![r].scores = StoredScores(relevance_table,
                                            run[r].collected.videos, country)]
                /\ UNCHANGED <<pc, monthly_cost, relevance_table>>
           ELSE IF cursor > Len(videos)
           THEN /\ pc' = [pc EXCEPT ![r] = "rank"]
                /\ UNCHANGED <<run, monthly_cost, relevance_table>>
           ELSE IF run[r].attempts = 0 /\ ~WithinBudget(monthly_cost, estimate)
           THEN \* skip the remaining batches
                /\ run' = [run EXCEPT ![r].budget_exceeded = TRUE,
                                      ![r].cursor = Len(videos) + 1]
                /\ UNCHANGED <<pc, monthly_cost, relevance_table>>
           ELSE /\ monthly_cost' = monthly_cost + booked
                /\ UNCHANGED pc
                /\ IF replied
                   THEN /\ run' = [run EXCEPT
                                ![r].scores = [v \in Videos |->
                                    IF v \in Range(batch) THEN <<LLMScore[v]>> ELSE @[v]],
                                ![r].cost = @ + booked,
                                ![r].cursor = cursor + BatchSize,
                                ![r].attempts = 0,
                                ![r].sends = sent]
                        /\ relevance_table' =
                                store_country_relevance(relevance_table, batch, country)
                   ELSE IF RetryAllowed(run[r].attempts)
                   THEN \* the same batch is sent again
                        /\ run' = [run EXCEPT ![r].cost = @ + booked,
                                              ![r].attempts = @ + 1,
                                              ![r].sends = sent]
                        /\ UNCHANGED relevance_table
                   ELSE \* full-batch skip: its videos stay unscored
                        /\ run' = [run EXCEPT ![r].cost = @ + booked,
                                              ![r].cursor = cursor + BatchSize,
                                              ![r].attempts = 0,
                                              ![r].sends = sent]
                        /\ UNCHANGED relevance_table
    /\ UNCHANGED <<req, connected, response, cache, fnVars>>

\* the validity window of a stored score (24h) runs out
Stale(v, country) ==
    /\ HasValidScore(relevance_table, v, country)
    /\ relevance_table' = [relevance_table EXCEPT ![country][v][1].valid = FALSE]
    /\ UNCHANGED <<pc, req, connected, run, response, cache, monthly_cost, fnVars>>

\* RANK: the Momentum Ranker
Rank(r) ==
    /\ pc[r] = "rank"
    /\ run' = [run EXCEPT ![r].payload =
            <<BuildPayload(req[r], run[r].collected, run[r].scores, run[r].cost)>>]
    /\ pc' = [pc EXCEPT ![r] = "cache_write"]
    /\ UNCHANGED <<req, connected, response, cache, monthly_cost, relevance_table, fnVars>>

\* get_trending_results: redis.setex(cache_key, 7200, json.dumps(results));
\* return results
\* when redis.setex raises, the return statement after it is not reached
CacheWrite(r, redis_up) ==
    /\ pc[r] = "cache_write"
    /\ IF redis_up
       THEN /\ cache' = redis_setex(cache, KeyOf(req[r]), CACHE_TTL_SEARCH,
                                    json_dumps(run[r].payload[1]), r)
            /\ response' = [response EXCEPT ![r] =
                    <<ApiResponse(run[r].payload[1], req[r].limit)>>]
            /\ run' = [run EXCEPT ![r].source = r]
            /\ pc' = [pc EXCEPT ![r] = "done"]
       ELSE /\ pc' = [pc EXCEPT ![r] = "failed"]
            /\ run' = [run EXCEPT ![r].cache_error = TRUE]
            /\ response' = [response EXCEPT ![r] = <<ErrorResponse(req[r])>>]
            /\ UNCHANGED cache
    /\ UNCHANGED <<req, connected, monthly_cost, relevance_table, fnVars>>

\* variant: the run of a caller that goes away is aborted
Disconnect_Aborts(r) ==
    /\ pc[r] \in RunStages /\ connected[r]
    /\ connected' = [connected EXCEPT ![r] = FALSE]
    /\ pc' = [pc EXCEPT ![r] = "rejected"]
    /\ run' = [run EXCEPT ![r] = NoRun]
    /\ UNCHANGED <<req, response, cache, monthly_cost, relevance_table, fnVars>>

\* the caller that started a pipeline run goes away while it is in flight
Disconnect(r) ==
    /\ pc[r] \in RunStages /\ connected[r]
    /\ connected' = [connected EXCEPT ![r] = FALSE]
    /\ UNCHANGED <<pc, req, run, response, cache, monthly_cost, relevance_table, fnVars>>

\* the TTL of an entry runs out
Expire(key) ==
    /\ cache[key] # <<>>
    /\ cache' = redis_delete(cache, {key})
    /\ UNCHANGED <<pc, req, connected, run, response, monthly_cost, relevance_table, fnVars>>

\* POST /api/mvp/trending/cache/invalidate
Invalidate(country, topic) ==
    /\ \E k \in CacheKeys : cache[k] # <<>>
    /\ cache' = invalidate(cache, country, topic)
    /\ UNCHANGED <<pc, req, connected, run, response, monthly_cost, relevance_table, fnVars>>

\* one step of the server on request r, the outside world answering from
\* the given sets
StepOver(r, trendsSet, tierSet, feedSet, costSet, redisSet, replySet) ==
    \/ \E redis_up \in redisSet : CacheCheck(r, redis_up)
    \/ \E trends \in trendsSet : Expand(r, trends)
    \/ \E tiers \in tierSet, feed \in feedSet : Collect(r, tiers, feed)
    \/ \E estimate \in costSet, replied \in replySet : Score(r, estimate, replied)
    \/ Rank(r)
    \/ \E redis_up \in redisSet : CacheWrite(r, redis_up)

Step(r) == StepOver(r, TrendsAnswers, TierAnswers, FeedAnswers, BatchCosts, BOOLEAN, {TRUE})

Next ==
    \/ \E r \in Reqs, q \in RequestInputs : Submit(r, q)
    \/ \E r \in Reqs : Step(r)
    \/ \E r \in Reqs : Disconnect(r)
    \/ \E key \in CacheKeys : Expire(key)
    \/ \E country \in {None, "US", "JP"}, topic \in {None, "ai"} : Invalidate(country, topic)

Spec == Init /\ [][Next]_vars

\* the overall wall-clock budget of a request runs out while its pipeline
\* is running: get_trending_results sets no deadline and waits for
\* perform_trending_analysis to return, so the run carries on as it is
Overdue(r) ==
    /\ pc[r] \in RunStages /\ ~run[r].overdue
    /\ run' = [run EXCEPT ![r].overdue = TRUE]
    /\ UNCHANGED <<pc, req, connected, response, cache, monthly_cost, relevance_table, fnVars>>

\* The same server with the fairness of its scheduling: every request it
\* has accepted keeps being run. Callers and providers answer from smaller
\* sets than in Spec, and the store is reachable.
LiveInputs == {Query("ai", "US", "48h", 1), Query("ai", "XX", "48h", 2)}
LiveTiers == {<<Failed, Failed, Failed>>, <<Answered(<<"v1", "v2">>), Failed, Failed>>}
LiveFeeds == {Answered(<<"v3", "v1">>)}
LiveCosts == {2}

LiveStep(r) == StepOver(r, {Failed}, LiveTiers, LiveFeeds, LiveCosts, {TRUE}, BOOLEAN)

LiveNext ==
    \/ \E r \in Reqs, q \in LiveInputs : Submit(r, q)
    \/ \E r \in Reqs : LiveStep(r)
    \/ \E r \in Reqs : Disconnect(r)
    \/ \E r \in Reqs : Overdue(r)
    \/ \E key \in CacheKeys : Expire(key)
    \/ Invalidate(None, None)

LiveSpec == Init /\ [][LiveNext]_vars /\ \A r \in Reqs : WF_vars(LiveStep(r))

\* The server seen from its Relevance Scorer: runs for two topics of one
\* country, one after the other or at the same time, whose candidates
\* overlap; batch requests that fail as a whole; stored scores whose
\* validity runs out. The store is reachable and the search terms are the
\* static ones.
ScorerTiers == {<<Answered(<<"v1", "v2">>), Failed, Failed>>}
ScorerFeeds == {Answered(<<"v3", "v1">>)}
ScorerCosts == {1}

ScorerStep(r) ==
    StepOver(r, {Failed}, ScorerTiers, ScorerFeeds, ScorerCosts, {TRUE}, BOOLEAN)

ScorerNext ==
    \/ \E r \in Reqs, q \in ScorerInputs : Submit(r, q)
    \/ \E r \in Reqs : ScorerStep(r)
    \/ \E v \in Videos : Stale(v, "US")

ScorerSpec == Init /\ [][ScorerNext]_vars

\* ================================================================ web client
\* A text typed into the search form is a sequence of runs [ch, n]: n times
\* the character ch. " " is white space, "a" a character of one UTF-16
\* code unit, "astral" a character of two (an emoji, say).
TextChars == {" ", "a", "astral"}

RunLengths == {1, 2, 50, 99, 100, 101}

Texts == UNION {[1..n -> [ch : TextChars, n : RunLengths]] : n \in 0..MaxRuns}

\* String.prototype.trim
RECURSIVE trimStart(_)
trimStart(text) ==
    IF text = <<>> THEN text
    ELSE IF Head(text).ch = " " THEN trimStart(Tail(text)) ELSE text

RECURSIVE trimEnd(_)
trimEnd(text) ==
    IF text = <<>> THEN text
    ELSE IF text[Len(text)].ch = " " THEN trimEnd(SubSeq(text, 1, Len(text) - 1))
         ELSE text

trim(text) == trimEnd(trimStart(text))

\* String.prototype.length: the number of UTF-16 code units
RECURSIVE length(_)
length(text) ==
    IF text = <<>> THEN 0
    ELSE (IF Head(text).ch = "astral" THEN 2 ELSE 1) * Head(text).n + length(Tail(text))

\* the number of characters of a text
RECURSIVE characters(_)
characters(text) ==
    IF text = <<>> THEN 0 ELSE Head(text).n + characters(Tail(text))

\* variant: the query is measured as typed
validateQuery_NoTrim(query) ==
    IF length(query) = 0
    THEN [valid |-> FALSE, error |-> "Search query is required"]
    ELSE IF length(query) < MinQueryLen
    THEN [valid |-> FALSE, error |-> "Search query must be at least 2 characters long"]
    ELSE IF length(query) > MaxQueryLen
    THEN [valid |-> FALSE, error |-> "Search query must be less than 100 characters"]
    ELSE [valid |-> TRUE, error |-> ""]

validateQuery(query) ==
    IF length(trim(query)) = 0
    THEN [valid |-> FALSE, error |-> "Search query is required"]
    ELSE IF length(trim(query)) < MinQueryLen
    THEN [valid |-> FALSE, error |-> "Search query must be at least 2 characters long"]
    ELSE IF length(trim(query)) > MaxQueryLen
    THEN [valid |-> FALSE, error |-> "Search query must be less than 100 characters"]
    ELSE [valid |-> TRUE, error |-> ""]

\* variant: onSearch is handed the form data as they are
handleSubmit_FormLimit(formData) ==
    IF ~validateQuery(formData.query).valid
    THEN [errors |-> validateQuery(formData.query).error, onSearch |-> <<>>]
    ELSE [errors |-> "", onSearch |-> <<formData>>]

\* SearchForm.handleSubmit: the error shown, and the calls of onSearch
handleSubmit(formData) ==
    IF ~validateQuery(formData.query).valid
    THEN [errors |-> validateQuery(formData.query).error, onSearch |-> <<>>]
    ELSE [errors |-> "", onSearch |-> <<[formData EXCEPT !.limit = 10]>>]

\* ================================================================== home page
\* HomePage.handleSearch up to its await: setIsLoading(true),
\* setResults(null), the call of TrendingAnalyzerAPI.analyzeTrending
handleSearch(p, formData) ==
    [p EXCEPT !.isLoading = TRUE,
              !.results = <<>>,
              !.shown = 0,
              !.searches = @ + 1,
              !.inflight = @ \cup {[id |-> p.searches + 1, params |-> formData]},
              !.sent = @ \cup {formData},
              !.requests = @ \cup {"/api/mvp/trending"}]

\* the form's submit event: SearchForm.handleSubmit, then onSearch
SubmitEvent(p) ==
    LET out == handleSubmit(p.formData)
    IN  IF out.onSearch = <<>> THEN [p EXCEPT !.errors = out.errors]
        ELSE handleSearch([p EXCEPT !.errors = ""], out.onSearch[1])

\* what TrendingAnalyzerAPI.analyzeTrending resolves to
TrendingResponse(params, found) ==
    [success |-> TRUE, query |-> params.query, country |-> params.country,
     timeframe |-> params.timeframe, results |-> found,
     metadata |-> [total_analyzed |-> found, llm_analyzed |-> found,
                   cache_hit |-> FALSE],
     error |-> ""]

\* handleSearch, catch: the record set when analyzeTrending throws
FailureRecord(formData, errorMessage) ==
    [success |-> FALSE, query |-> formData.query, country |-> formData.country,
     timeframe |-> formData.timeframe, results |-> 0,
     metadata |-> [total_analyzed |-> 0, llm_analyzed |-> 0, cache_hit |-> FALSE],
     error |-> errorMessage]

\* the texts typed or clicked into the query field: "", "a" (too short) and
\* "aa"
PageQueries == {<<>>, <<[ch |-> "a", n |-> 1]>>, <<[ch |-> "a", n |-> 2]>>}
DefaultLimits == {10, 25}
SearchOutcomes == {"found", "empty", "throws"}

PageInit ==
    /\ homePage \in {[NoPage EXCEPT !.formData = DEFAULT_FORM_VALUES(limit)] :
                        limit \in DefaultLimits}
    /\ panel = NoPanel
    /\ debouncer = NoDebouncer
    /\ fnIn = [kind |-> "idle"]
    /\ fnOut = NoOutputs
    /\ pc = [r \in Reqs |-> "idle"]
    /\ req = [r \in Reqs |-> NoQuery]
    /\ connected = [r \in Reqs |-> TRUE]
    /\ run = [r \in Reqs |-> NoRun]
    /\ response = [r \in Reqs |-> NoResponse]
    /\ cache = [k \in CacheKeys |-> <<>>]
    /\ monthly_cost = LLM_MONTHLY_BUDGET - BudgetLeft
    /\ relevance_table = NoRelevance

PageUnchanged == UNCHANGED <<pipeVars, fnIn, fnOut, panel, debouncer>>

\* handleInputChange('query', value); the input is disabled while loading
Type(query) ==
    /\ ~homePage.isLoading /\ query # homePage.formData.query
    /\ homePage' = [homePage EXCEPT !.formData.query = query,
                                    !.validating = <<query>>]
    /\ PageUnchanged

\* the debounced validation runs on the query of its last call
DebouncedValidation ==
    /\ homePage.validating # <<>>
    /\ homePage' = [homePage EXCEPT
            !.errors = validateQuery(homePage.validating[1]).error,
            !.validating = <<>>]
    /\ PageUnchanged

\* handleExampleClick; the examples are rendered while not loading
ClickExample(example) ==
    /\ ~homePage.isLoading /\ example # <<>>
    /\ homePage' = [homePage EXCEPT !.formData.query = example, !.errors = ""]
    /\ PageUnchanged

\* the submit button, disabled={isLoading || !!errors.query}
ClickSubmit ==
    /\ ~homePage.isLoading /\ homePage.errors = ""
    /\ homePage.searches < MaxSearches
    /\ homePage' = SubmitEvent(homePage)
    /\ PageUnchanged

\* ResultsDisplay's Try Again, rendered for a failed result: handleRetry
TryAgain ==
    /\ homePage.results # <<>> /\ ~homePage.results[1].success
    /\ homePage.searches < MaxSearches
    /\ homePage' = handleSearch(homePage,
            [query |-> homePage.results[1].query,
             country |-> homePage.results[1].country,
             timeframe |-> homePage.results[1].timeframe,
             limit |-> 10])
    /\ PageUnchanged

\* a call of analyzeTrending settles: handleSearch goes on after its await,
\* through try or catch, then finally
SearchSettles(call, outcome) ==
    /\ call \in homePage.inflight
    /\ homePage' = [homePage EXCEPT
            !.inflight = @ \ {call},
            !.results = IF outcome = "throws"
                        THEN <<FailureRecord(call.params,
                                    "Failed to analyze trending videos")>>
                        ELSE <<TrendingResponse(call.params,
                                    IF outcome = "found" THEN 1 ELSE 0)>>,
            !.shown = call.id,
            !.isLoading = FALSE]
    /\ PageUnchanged

\* CacheControls.handleClearCache up to its await
StartClear(p, specific) ==
    [p EXCEPT !.isClearing = TRUE, !.showConfirm = FALSE,
              !.clearing = <<[specific |-> specific]>>,
              !.clears = @ + 1]

\* a <button> of CacheControls has no type attribute and sits inside the
\* <form> of SearchForm: after its onClick the browser submits the form,
\* unless the onClick has disabled or unmounted the button (submits: what
\* the browser then does)
AfterClick(p, submits) ==
    IF submits /\ p.searches < MaxSearches THEN SubmitEvent(p) ELSE p

\* "Clear This Search", rendered when currentQuery and currentCountry are set
ClickClearThis(submits) ==
    /\ ~homePage.isClearing /\ homePage.formData.query # <<>>
    /\ homePage.clears < MaxClears
    /\ homePage' = AfterClick(StartClear(homePage, TRUE), submits)
    /\ PageUnchanged

\* "Clear All Cache": onClick={() => setShowConfirm(true)}; the button stays
\* enabled and mounted, the form is submitted
ClickClearAllCache ==
    /\ ~homePage.isClearing /\ ~homePage.showConfirm
    /\ homePage' = AfterClick([homePage EXCEPT !.showConfirm = TRUE], TRUE)
    /\ PageUnchanged

\* "Clear All" of the confirmation popup
ClickConfirm(submits) ==
    /\ homePage.showConfirm /\ ~homePage.isClearing
    /\ homePage.clears < MaxClears
    /\ homePage' = AfterClick(StartClear(homePage, FALSE), submits)
    /\ PageUnchanged

\* "Cancel" of the popup (a button), or a click outside it (a div)
ClickCancel(submits) ==
    /\ homePage.showConfirm
    /\ homePage' = AfterClick([homePage EXCEPT !.showConfirm = FALSE], submits)
    /\ PageUnchanged

\* handleClearCache, try block: clearing the browser caches throws before
\* anything else is done, or the block runs to its end
TryBlock(threw) ==
    IF threw THEN <<>> ELSE <<"toast.success", "onCacheCleared">>

\* variant: the catch block reports the failure
CatchBlock_Reports == <<"toast.error">>

\* handleClearCache, catch block
CatchBlock == <<"toast.success", "onCacheCleared">>

\* HomePage.handleCacheCleared, called as onCacheCleared
handleCacheCleared(p) == IF p.results # <<>> THEN <<"toast.success">> ELSE <<>>

\* what one call of handleClearCache did, in order
ClearEffects(threw) == TryBlock(threw) \o (IF threw THEN CatchBlock ELSE <<>>)

\* the browser caches are cleared or clearing them throws: handleClearCache
\* goes on after its await, then finally
ClearSettles(threw) ==
    /\ homePage.clearing # <<>>
    /\ homePage' = [homePage EXCEPT
            !.clearing = <<>>,
            !.isClearing = FALSE,
            !.lastClear = <<[specific |-> homePage.clearing[1].specific,
                             threw |-> threw,
                             did |-> ClearEffects(threw),
                             page |-> handleCacheCleared(homePage)]>>]
    /\ PageUnchanged

PageNext ==
    \/ \E query \in PageQueries : Type(query)
    \/ DebouncedValidation
    \/ \E example \in PageQueries : ClickExample(example)
    \/ ClickSubmit
    \/ TryAgain
    \/ \E call \in homePage.inflight, outcome \in SearchOutcomes :
            SearchSettles(call, outcome)
    \/ \E submits \in BOOLEAN : ClickClearThis(submits)
    \/ ClickClearAllCache
    \/ \E submits \in BOOLEAN : ClickConfirm(submits)
    \/ \E submits \in BOOLEAN : ClickCancel(submits)
    \/ \E threw \in BOOLEAN : ClearSettles(threw)

PageSpec == PageInit /\ [][PageNext]_vars

\* =========================================================== analytics panel
\* the period buttons of CostAnalytics
Periods == {1, 7, 14, 30}

\* loadCostData up to its await
loadCostData(p) ==
    [p EXCEPT !.isLoading = TRUE,
              !.error = FALSE,
              !.inflight = @ \cup {[id |-> p.fetches + 1, days |-> p.days]},
              !.fetches = @ + 1]

PanelUnchanged == UNCHANGED <<pipeVars, fnIn, fnOut, homePage, debouncer>>

\* the first render: useEffect(() => { loadCostData() }, [days]) runs. The
\* effect has no cleanup; with reactStrictMode the development build runs a
\* mount effect twice.
Mount(strictMode) ==
    /\ ~panel.mounted
    /\ panel' = IF strictMode
                THEN loadCostData(loadCostData([panel EXCEPT !.mounted = TRUE]))
                ELSE loadCostData([panel EXCEPT !.mounted = TRUE])
    /\ PanelUnchanged

\* a period button, rendered by the main render only: setDays(d), and the
\* effect runs again
SetDays(d) ==
    /\ panel.mounted /\ ~panel.isLoading /\ ~panel.error /\ panel.costData # <<>>
    /\ d # panel.days
    /\ panel.fetches < MaxFetches
    /\ panel' = loadCostData([panel EXCEPT !.days = d])
    /\ PanelUnchanged

\* the button of the error screen: onClick={loadCostData}
RetryLoad ==
    /\ panel.mounted /\ ~panel.isLoading /\ panel.error
    /\ panel.fetches < MaxFetches
    /\ panel' = loadCostData(panel)
    /\ PanelUnchanged

\* a fetch settles: loadCostData goes on after its await, then finally
FetchSettles(fetch, ok) ==
    /\ fetch \in panel.inflight
    /\ panel' = [panel EXCEPT
            !.inflight = @ \ {fetch},
            !.costData = IF ok THEN <<fetch.days>> ELSE @,
            !.error = IF ok THEN @ ELSE TRUE,
            !.isLoading = FALSE]
    /\ PanelUnchanged

PanelNext ==
    \/ \E strictMode \in BOOLEAN : Mount(strictMode)
    \/ \E d \in Periods : SetDays(d)
    \/ RetryLoad
    \/ \E fetch \in panel.inflight, ok \in BOOLEAN : FetchSettles(fetch, ok)

PanelSpec == Init /\ [][PanelNext]_vars

\* ================================================================== debounce
\* variant: clearing a timeout does nothing
clearTimeout_Noop(timers, timeoutId) == timers

\* clearTimeout: the timeout with this id, if still set, will not run
clearTimeout(timers, timeoutId) == {t \in timers : t.id # timeoutId}

\* setTimeout(() => func(...args), delay)
setTimeout(d, args, delay) ==
    [id |-> d.nextId, due |-> d.now + delay, args |-> args]

\* the arguments the debounced function is called with
DebounceArgs == {"a", "ab"}

\* a timeout that is due runs before anything else happens
TimerDue == \E t \in debouncer.timers : t.due <= debouncer.now

DebounceUnchanged == UNCHANGED <<pipeVars, fnIn, fnOut, homePage, panel>>

\* the function debounce returns is called
Debounced(args) ==
    /\ ~TimerDue
    /\ Len(debouncer.calls) < MaxCalls
    /\ debouncer' = [debouncer EXCEPT
            !.timers = clearTimeout(@, debouncer.timeoutId)
                            \cup {setTimeout(debouncer, args, Delay)},
            !.timeoutId = debouncer.nextId,
            !.nextId = @ + 1,
            !.calls = Append(@, [at |-> debouncer.now, args |-> args])]
    /\ DebounceUnchanged

\* a timeout runs: func(...args)
TimeoutRuns(t) ==
    /\ t \in debouncer.timers /\ t.due <= debouncer.now
    /\ debouncer' = [debouncer EXCEPT
            !.timers = @ \ {t},
            !.invocations = Append(@, [at |-> debouncer.now, args |-> t.args,
                                       after |-> Len(debouncer.calls)])]
    /\ DebounceUnchanged

\* time passes
Tick ==
    /\ ~TimerDue
    /\ debouncer.now < MaxTime
    /\ debouncer' = [debouncer EXCEPT !.now = @ + 1]
    /\ DebounceUnchanged

DebounceNext ==
    \/ \E args \in DebounceArgs : Debounced(args)
    \/ \E t \in debouncer.timers : TimeoutRuns(t)
    \/ Tick

DebounceSpec == Init /\ [][DebounceNext]_vars

\* ===================================================================== FnSpec
RelSample == {0, 3, 9, 10}

ScoreInputs ==
    {i \in [kind : {"score"},
            views : 0..MaxCount, likes : 0..MaxCount, comments : 0..1,
            views_in_timeframe : 0..MaxCount, age_hours : AgeHours,
            timeframe : SupportedTimeframes,
            relA : RelSample, relB : RelSample,
            trendA : BOOLEAN, trendB : BOOLEAN] :
        i.views_in_timeframe <= i.views}

\* the provider answers drawn: a failure, or any list of up to MaxListLen
\* ids, repeats included, of a recent and an old video
ListVideos == {"v1", "v3"}
ProviderLists == UNION {[1..n -> ListVideos] : n \in 0..MaxListLen}
ProviderOutcomes == {Failed} \cup {Answered(ids) : ids \in ProviderLists}

CollectInputs ==
    [kind : {"collect"},
     tiers : [1..3 -> ProviderOutcomes], feed : ProviderOutcomes,
     timeframe : SupportedTimeframes]

\* the expander's inputs: a topic, a country, the state of the circuit
\* breaker and what the trends source would answer
ExpandInputs ==
    [kind : {"expand"}, topic : {"ai", "ai video"}, country : SupportedCountries,
     breaker_open : BOOLEAN,
     answer : {Failed, Answered(<<>>), Answered(<<"ai video", "ai">>),
               Answered(<<"ai video", "ai video">>)}]

\* a store for the invalidation: keys that share a country, a topic or
\* neither, each holding an entry or not, and the filter the admin gives
InvalidateKeys ==
    {cache_key("ai", "US", "48h"), cache_key("ai", "US", "24h"),
     cache_key("ki", "US", "48h"), cache_key("ai", "JP", "48h"),
     cache_key("ki", "DE", "7d")}

StoredEntry(key) == <<[value |-> json_dumps(key[3]), ttl |-> CACHE_TTL_SEARCH, writer |-> 0]>>

InvalidateInputs ==
    {[kind |-> "invalidate",
      store |-> [k \in InvalidateKeys |-> IF k \in present THEN StoredEntry(k) ELSE <<>>],
      country |-> country, query |-> query] :
        present \in SUBSET InvalidateKeys,
        country \in {None, "US", "JP", "FR"},
        query \in {None, "", "ai", "ki", "zz"}}

\* the form as the user has filled it in
FormInputs ==
    [kind : {"form"}, query : Texts, country : {"US"}, timeframe : {"48h"},
     limit : {10}]

FnVideo(i, trending) ==
    [views |-> i.views, likes |-> i.likes, comments |-> i.comments,
     views_in_timeframe |-> i.views_in_timeframe, age_hours |-> i.age_hours,
     is_in_trending_feed |-> trending]

\* the ranker scores the two videos of the pair
FnScore ==
    /\ fnIn.kind = "score" /\ fnOut.score = <<>>
    /\ fnOut' = [fnOut EXCEPT !.score =
            <<calculate_v7_trending_score(FnVideo(fnIn, fnIn.trendA), fnIn.relA, fnIn.timeframe),
              calculate_v7_trending_score(FnVideo(fnIn, fnIn.trendB), fnIn.relB, fnIn.timeframe)>>]
    /\ UNCHANGED <<fnIn, pipeVars, clientVars>>

\* the ranker's engagement rate of the video
FnEngagement ==
    /\ fnIn.kind = "score" /\ fnOut.engagement = <<>>
    /\ fnOut' = [fnOut EXCEPT !.engagement = <<engagement_rate(FnVideo(fnIn, fnIn.trendA))>>]
    /\ UNCHANGED <<fnIn, pipeVars, clientVars>>

\* the web client's engagement rate of the video
FnClientEngagement ==
    /\ fnIn.kind = "score" /\ fnOut.client = <<>>
    /\ fnOut' = [fnOut EXCEPT !.client =
            <<calculateEngagementRate(fnIn.likes, fnIn.comments, fnIn.views)>>]
    /\ UNCHANGED <<fnIn, pipeVars, clientVars>>

\* the collector merges the provider answers
FnCollect ==
    /\ fnIn.kind = "collect" /\ fnOut.collected = <<>>
    /\ fnOut' = [fnOut EXCEPT !.collected =
            <<CollectCandidates(fnIn.tiers, fnIn.feed, fnIn.timeframe)>>]
    /\ UNCHANGED <<fnIn, pipeVars, clientVars>>


\* the expander turns the topic into search terms
FnExpand ==
    /\ fnIn.kind = "expand" /\ fnOut.terms = <<>>
    /\ fnOut' = [fnOut EXCEPT !.terms =
            <<expand_search_terms(fnIn.topic, fnIn.country,
                                  google_trends(fnIn.breaker_open, fnIn.answer))>>]
    /\ UNCHANGED <<fnIn, pipeVars, clientVars>>

\* the admin client invalidates cache entries
FnInvalidate ==
    /\ fnIn.kind = "invalidate" /\ fnOut.store = <<>>
    /\ LET params == invalidateCache(fnIn.country, fnIn.query)
       IN  fnOut' = [fnOut EXCEPT !.store =
               <<invalidate(fnIn.store, params.country, params.query)>>]
    /\ UNCHANGED <<fnIn, pipeVars, clientVars>>

\* the user submits the search form
FnSubmitForm ==
    /\ fnIn.kind = "form" /\ fnOut.form = <<>>
    /\ fnOut' = [fnOut EXCEPT !.form =
            <<handleSubmit([query |-> fnIn.query, country |-> fnIn.country,
                            timeframe |-> fnIn.timeframe, limit |-> fnIn.limit])>>]
    /\ UNCHANGED <<fnIn, pipeVars, clientVars>>

\* the lists of videos needing a score: n distinct videos, numbered
BatchInputs == {[kind |-> "batch", videos |-> [i \in 1..n |-> i]] : n \in 0..MaxUnscored}

FnBatch ==
    /\ fnIn.kind = "batch" /\ fnOut.batches = <<>>
    /\ fnOut' = [fnOut EXCEPT !.batches = <<gemini_analyze_batch(fnIn.videos)>>]
    /\ UNCHANGED <<fnIn, pipeVars, clientVars>>

\* the candidates handed to the Ranker: up to MaxRanked distinct videos in
\* any order of collection, each unscored or scored 1.0, the first one in
\* the trending feed or none
RankInputs ==
    {i \in [kind : {"rank"},
            ids : UNION {[1..n -> Videos] : n \in 0..MaxRanked},
            rel : [Videos -> {<<>>, <<10>>}],
            feed_first : BOOLEAN,
            timeframe : {"48h", "7d"}] :
        /\ NoDuplicates(i.ids)
        /\ \A v \in Videos \ Range(i.ids) : i.rel[v] = <<>>
        /\ i.feed_first => i.ids # <<>>}

FnRank ==
    /\ fnIn.kind = "rank" /\ fnOut.ranked = <<>>
    /\ fnOut' = [fnOut EXCEPT !.ranked =
            <<RankVideos(fnIn.ids, fnIn.rel,
                         IF fnIn.feed_first THEN {fnIn.ids[1]} ELSE {},
                         fnIn.timeframe)>>]
    /\ UNCHANGED <<fnIn, pipeVars, clientVars>>

\* ------------------------------------------------------------- API client
\* JavaScript: undefined (<<>>) and the empty string are falsy
Truthy(value) == value # <<>> /\ value[1] # ""

\* a || b
Or(a, b) == IF Truthy(a) THEN a ELSE b

\* data?.field of the body of an error response; a body that is no object
\* (<<>>) has no fields
Field(data, field) == IF data = <<>> THEN <<>> ELSE data[1][field]

\* new TrendingAnalysisError(message, status = 500, detail)
TrendingAnalysisError(message, status, detail) ==
    [name |-> "TrendingAnalysisError", message |-> message,
     status |-> IF status = <<>> THEN 500 ELSE status[1], detail |-> detail]

\* variant: an error without response and request is passed on as it is
onRejected_PassOn(error) ==
    IF error.response # <<>>
    THEN TrendingAnalysisError(
            Or(Field(error.response[1].data, "detail"),
               Or(Field(error.response[1].data, "message"), <<"Server error">>)),
            <<error.response[1].status>>,
            Field(error.response[1].data, "detail"))
    ELSE IF error.request
    THEN TrendingAnalysisError(
            <<"Network error - please check your connection">>, <<503>>, <<>>)
    ELSE [name |-> "AxiosError", message |-> error.message, status |-> 0,
          detail |-> <<>>]

\* api.interceptors.response, the handler of a failed call
onRejected(error) ==
    IF error.response # <<>>
    THEN TrendingAnalysisError(
            Or(Field(error.response[1].data, "detail"),
               Or(Field(error.response[1].data, "message"), <<"Server error">>)),
            <<error.response[1].status>>,
            Field(error.response[1].data, "detail"))
    ELSE IF error.request
    THEN TrendingAnalysisError(
            <<"Network error - please check your connection">>, <<503>>, <<>>)
    ELSE TrendingAnalysisError(
            Or(error.message, <<"Unknown error occurred">>), <<>>, <<>>)

\* a method of TrendingAnalyzerAPI whose call of api.get fails: the error of
\* the request interceptor, of the network or of the server goes through the
\* response interceptor, and the method's catch throws it on
ApiCallFails(error) == onRejected(error)

\* texts of a field of an error body, or of error.message: absent, empty, set
ErrorTexts(text) == {<<>>, <<"">>, <<text>>}

\* bodies of an error response: none or no object, or one with detail and
\* message
ErrorBodies ==
    {<<>>} \cup {<<b>> : b \in [detail : ErrorTexts("Rate limit exceeded"),
                              message : ErrorTexts("Too many requests")]}

\* what axios hands to the handler: an error status with its body, a request
\* without response (network failure, timeout), or neither (the request was
\* never sent)
AxiosErrors ==
    [response : {<<>>}, request : BOOLEAN, message : ErrorTexts("Invalid URL")]
    \cup [response : {<<r>> : r \in [status : {400, 422, 429, 500, 503},
                                     data : ErrorBodies]},
          request : {TRUE},
          message : {<<"Request failed">>}]

RejectInputs == [kind : {"reject"}, error : AxiosErrors]

FnReject ==
    /\ fnIn.kind = "reject" /\ fnOut.thrown = <<>>
    /\ fnOut' = [fnOut EXCEPT !.thrown = <<ApiCallFails(fnIn.error)>>]
    /\ UNCHANGED <<fnIn, pipeVars, clientVars>>

\* variant: when both requests fail the error of the fallback is thrown
getBackendInfo_ThrowsFallback(root, fallback) ==
    IF root.ok
    THEN [returned |-> <<root.data>>, thrown |-> <<>>, requests |-> <<"/">>]
    ELSE IF fallback.ok
    THEN [returned |-> <<fallback.data>>, thrown |-> <<>>,
          requests |-> <<"/", "/api/mvp">>]
    ELSE [returned |-> <<>>, thrown |-> <<ApiCallFails(fallback.error)>>,
          requests |-> <<"/", "/api/mvp">>]

\* TrendingAnalyzerAPI.getBackendInfo; root and fallback are what GET '/' and
\* GET '/api/mvp' answer when asked
getBackendInfo(root, fallback) ==
    IF root.ok
    THEN [returned |-> <<root.data>>, thrown |-> <<>>, requests |-> <<"/">>]
    ELSE IF fallback.ok
    THEN [returned |-> <<fallback.data>>, thrown |-> <<>>,
          requests |-> <<"/", "/api/mvp">>]
    ELSE [returned |-> <<>>, thrown |-> <<ApiCallFails(root.error)>>,
          requests |-> <<"/", "/api/mvp">>]

\* VersionStatus.fetchBackendVersion: the state it leaves
fetchBackendVersion(root, fallback) ==
    LET out == getBackendInfo(root, fallback)
    IN  [backendInfo |-> out.returned,
         error |-> IF out.thrown # <<>> THEN <<"Backend unavailable">> ELSE <<>>,
         loading |-> FALSE,
         call |-> out]

\* the answers of one endpoint: its data, or a failure
Replies(data) ==
    {[ok |-> TRUE, data |-> data, error |-> <<>>]}
    \cup {[ok |-> FALSE, data |-> "", error |-> e] : e \in AxiosErrors}

BackendInfoInputs ==
    [kind : {"info"}, root : Replies("root info"), fallback : Replies("api info")]

FnBackendInfo ==
    /\ fnIn.kind = "info" /\ fnOut.info = <<>>
    /\ fnOut' = [fnOut EXCEPT !.info =
            <<fetchBackendVersion(fnIn.root, fnIn.fallback)>>]
    /\ UNCHANGED <<fnIn, pipeVars, clientVars>>

FnNext ==
    \/ FnScore \/ FnEngagement \/ FnClientEngagement \/ FnCollect \/ FnExpand
    \/ FnInvalidate \/ FnSubmitForm \/ FnBatch \/ FnRank
    \/ FnReject \/ FnBackendInfo

\* the functions under test start on any input of the bounded sets; the
\* pipeline stays idle
FnInit ==
    /\ fnIn \in ScoreInputs \cup CollectInputs \cup ExpandInputs \cup InvalidateInputs
                \cup FormInputs \cup BatchInputs \cup RankInputs
                \cup RejectInputs \cup BackendInfoInputs
    /\ fnOut = NoOutputs
    /\ homePage = NoPage
    /\ panel = NoPanel
    /\ debouncer = NoDebouncer
    /\ pc = [r \in Reqs |-> "idle"]
    /\ req = [r \in Reqs |-> NoQuery]
    /\ connected = [r \in Reqs |-> TRUE]
    /\ run = [r \in Reqs |-> NoRun]
    /\ response = [r \in Reqs |-> NoResponse]
    /\ cache = [k \in CacheKeys |-> <<>>]
    /\ monthly_cost = LLM_MONTHLY_BUDGET - BudgetLeft
    /\ relevance_table = NoRelevance

FnSpec == FnInit /\ [][FnNext]_vars

\* ====================================================================== claims
Answer(r) == response[r][1]

\* C1 (single-flight): for every cache key at most one pipeline run is in
\* progress at any moment; two requests are never both inside the stages
\* EXPAND..CACHE_WRITE for the same key.
C1_SingleFlight ==
    \A r1, r2 \in Reqs :
        (r1 # r2 /\ pc[r1] \in RunStages /\ pc[r2] \in RunStages)
            => KeyOf(req[r1]) # KeyOf(req[r2])

C3_CacheIdempotence ==
    \A r \in Reqs :
        (pc[r] = "done" /\ run[r].hit /\ req[run[r].source] = req[r])
            => /\ Answer(r).results = Answer(run[r].source).results
               /\ Answer(r).metadata.cache_hit = TRUE

\* the inputs the API documents as invalid
InvalidInput(q) ==
    \/ q.country \notin {"DE", "US", "FR", "JP"}
    \/ q.timeframe \notin {"24h", "48h", "7d"}
    \/ Len(q.topic) < 2 \/ Len(q.topic) > 100

\* C4 (input rejection): the step that takes in an invalid query rejects it
\* and leaves every run, the cache and the budget counter as they were, and
\* a rejected request never enters a stage afterwards.
C4_InputRejection ==
    [][\A r \in Reqs :
        /\ (pc[r] = "idle" /\ pc'[r] # "idle" /\ InvalidInput(req'[r]))
            => /\ pc'[r] = "rejected"
               /\ ~response'[r][1].success
               /\ run' = run /\ cache' = cache /\ monthly_cost' = monthly_cost
        /\ (pc[r] = "rejected" => (pc'[r] = "rejected" /\ run'[r] = NoRun))]_vars

\* an invalid query was rejected while another request's run had filled the cache
C4_Witness ==
    \E r1, r2 \in Reqs :
        /\ pc[r1] = "rejected" /\ InvalidInput(req[r1])
        /\ pc[r2] = "done" /\ cache[KeyOf(req[r2])] # <<>>

\* C5 (result length): an answered query holds at most limit results and
\* at most as many as the deduplicated candidates of the run that made them.
C5_ResultLength ==
    \A r \in Reqs :
        pc[r] = "done"
            => /\ Len(Answer(r).results) <= req[r].limit
               /\ Len(Answer(r).results) <= Answer(r).metadata.total_analyzed
               /\ (~run[r].hit => Len(Answer(r).results) <= Len(run[r].collected.videos))

\* the limit cut the list of a run that had more candidates
C5_Witness ==
    \E r \in Reqs :
        /\ pc[r] = "done" /\ ~run[r].hit
        /\ Len(Answer(r).results) = req[r].limit
        /\ Len(run[r].collected.videos) > req[r].limit

\* C6 (deduplication): the collector's output never holds two entries with
\* the same provider identifier.
C6_Deduplicated ==
    fnOut.collected # <<>> => NoDuplicates(fnOut.collected[1].videos)

\* a video answered by two tiers and by the trending feed was merged
C6_Witness ==
    /\ fnOut.collected # <<>>
    /\ fnOut.collected[1].duplicates_removed >= 2
    /\ \E v \in Videos :
        /\ v \in Range(Got(fnIn.tiers[1])) \cap Range(Got(fnIn.tiers[2]))
        /\ v \in fnOut.collected[1].in_feed
        /\ v \in Range(fnOut.collected[1].videos)

\* C7 (total provider failure): a run all of whose provider calls failed
\* answers success with no results and total_candidates = 0.
C7_TotalFailure ==
    \A r \in Reqs :
        (pc[r] = "done" /\ ~run[r].hit /\ run[r].collected.all_failed)
            => /\ Answer(r).success
               /\ Answer(r).results = <<>>
               /\ Answer(r).metadata.total_analyzed = 0

C7_Witness ==
    \E r \in Reqs : pc[r] = "done" /\ ~run[r].hit /\ run[r].collected.all_failed

ScoreA == fnOut.score[1]
ScoreB == fnOut.score[2]

\* C8 as stated (momentum monotonicity): of two videos that differ only in
\* relevance_score the higher one has the strictly higher final score, and
\* of two that differ only in in_trending_feed the trending one has.
C8_StrictlyMonotone ==
    fnOut.score # <<>>
        => /\ (fnIn.trendA = fnIn.trendB /\ fnIn.relA < fnIn.relB)
                => ScoreA.trending_score < ScoreB.trending_score
           /\ (fnIn.relA = fnIn.relB /\ ~fnIn.trendA /\ fnIn.trendB)
                => ScoreA.trending_score < ScoreB.trending_score

\* C8 as amended: the final score never decreases with relevance_score or
\* with in_trending_feed, and increases strictly exactly when base_momentum
\* is positive; with base_momentum = 0 both final scores are 0.
C8_MonotoneWhenPositive ==
    LET differ == \/ fnIn.trendA = fnIn.trendB /\ fnIn.relA < fnIn.relB
                  \/ fnIn.relA = fnIn.relB /\ ~fnIn.trendA /\ fnIn.trendB
    IN  (fnOut.score # <<>> /\ differ)
            => IF ScoreA.base_momentum > 0
               THEN ScoreA.trending_score < ScoreB.trending_score
               ELSE ScoreA.trending_score = 0 /\ ScoreB.trending_score = 0

C8_Witness ==
    /\ fnOut.score # <<>>
    /\ fnIn.trendA = fnIn.trendB /\ fnIn.relA < fnIn.relB
    /\ ScoreA.base_momentum > 0
    /\ ScoreA.trending_score < ScoreB.trending_score

\* C9 (no division by zero): for a video with views = 0 the engagement rate
\* is computed and is 0, in the ranker and in the web client.
C9_ZeroViews ==
    fnIn.kind = "score" /\ fnIn.views = 0
        => /\ (fnOut.engagement # <<>> => RateIsZero(fnOut.engagement[1]))
           /\ (fnOut.client # <<>> => RateIsZero(fnOut.client[1]))

\* C10 (cancellation): the step in which the caller of a run in flight
\* disconnects leaves the run where it is, and a run whose caller has
\* disconnected still reaches DONE through its own cache write.
C10_RunCompletes ==
    /\ [][\A r \in Reqs :
            (pc[r] \in RunStages /\ connected[r] /\ ~connected'[r])
                => (pc'[r] = pc[r] /\ run'[r] = run[r])]_vars
    /\ \A r \in Reqs :
            (~connected[r] /\ pc[r] \in RunStages)
                ~> (pc[r] = "done" /\ run[r].source = r)

\* the run of a disconnected caller wrote the entry a later caller was answered
C10_Witness ==
    \E r1, r2 \in Reqs :
        /\ ~connected[r1] /\ pc[r1] = "done" /\ run[r1].source = r1
        /\ pc[r2] = "done" /\ run[r2].hit /\ run[r2].source = r1

\* C11 (cache errors never fail a request): a request that met a failing
\* cache read goes on into the pipeline as on a miss, and one that met a
\* failing cache write is still answered the computed result; a request
\* that met a cache error never ends as failed.
C11_CacheErrorsTolerated ==
    \A r \in Reqs :
        run[r].cache_error
            => /\ pc[r] \in RunStages \cup {"done"}
               /\ (pc[r] = "done"
                    => /\ Answer(r).success
                       /\ run[r].payload # <<>>
                       /\ Answer(r) = ApiResponse(run[r].payload[1], req[r].limit))

Omitted(field) == field \in {None, ""}

\* C13 (cache invalidation): after invalidate(country?, topic?) every key
\* whose country and topic match the filter is a miss, an omitted field
\* matching everything, and every other key holds what it held before.
C13_Invalidation ==
    (fnIn.kind = "invalidate" /\ fnOut.store # <<>>)
        => \A k \in InvalidateKeys :
            IF /\ (Omitted(fnIn.country) \/ k[2] = fnIn.country)
               /\ (Omitted(fnIn.query) \/ k[3] = fnIn.query)
            THEN redis_get(fnOut.store[1], k) = <<>>
            ELSE redis_get(fnOut.store[1], k) = redis_get(fnIn.store, k)

\* a filter with both fields removed an entry and spared a stored entry of
\* the same country and one of the same topic
C13_Witness ==
    /\ fnIn.kind = "invalidate" /\ fnOut.store # <<>>
    /\ fnIn.country = "US" /\ fnIn.query = "ai"
    /\ fnIn.store[cache_key("ai", "US", "48h")] # <<>>
    /\ fnOut.store[1][cache_key("ai", "US", "48h")] = <<>>
    /\ fnOut.store[1][cache_key("ki", "US", "48h")] # <<>>
    /\ fnOut.store[1][cache_key("ai", "JP", "48h")] # <<>>

StageMachine ==
    {<<"idle", "cache_check">>, <<"idle", "rejected">>,
     <<"cache_check", "done">>, <<"cache_check", "expand">>,
     <<"expand", "collect">>, <<"collect", "score">>, <<"score", "rank">>,
     <<"rank", "cache_write">>, <<"cache_write", "done">>}

\* C15 (stage order): every move of a request from one stage to another is
\* a move of the stage machine, CACHE_CHECK goes to DONE exactly on a hit
\* and to EXPAND exactly on a miss, and no stage is entered twice.
C15_StageOrder ==
    [][\A r \in Reqs :
        pc'[r] # pc[r]
            => /\ <<pc[r], pc'[r]>> \in StageMachine
               /\ (pc[r] = "cache_check"
                    => IF redis_get(cache, KeyOf(req[r])) # <<>>
                       THEN pc'[r] = "done" /\ run'[r].hit
                       ELSE pc'[r] = "expand")]_vars

\* C16 (batching): n videos needing a score and batch size B give exactly
\* ceil(n/B) batches; every batch but the last has B videos, the last has
\* n - B*(ceil(n/B) - 1); each video is in exactly one batch.
C16_Batching ==
    (fnIn.kind = "batch" /\ fnOut.batches # <<>>)
        => LET bs == fnOut.batches[1]
               n == Len(fnIn.videos)
               count == (n + BatchSize - 1) \div BatchSize
           IN  /\ Len(bs) = count
               /\ \A i \in 1..(Len(bs) - 1) : Len(bs[i]) = BatchSize
               /\ n > 0 => Len(bs[Len(bs)]) = n - BatchSize * (count - 1)
               /\ \A v \in Range(fnIn.videos) :
                      Cardinality({p \in {<<i, j>> : i \in 1..Len(bs), j \in 1..BatchSize} :
                                      p[2] <= Len(bs[p[1]]) /\ bs[p[1]][p[2]] = v}) = 1

\* more than one batch, the last one not full
C16_Witness ==
    /\ fnIn.kind = "batch" /\ fnOut.batches # <<>>
    /\ Len(fnOut.batches[1]) >= 2
    /\ Len(fnOut.batches[1][Len(fnOut.batches[1])]) \in 1..(BatchSize - 1)
    /\ Len(fnIn.videos) = MaxUnscored

\* the batch request r sends in this step, if it sends one
SendsNow(r) == Len(run'[r].sends) = Len(run[r].sends) + 1
LastSent(r) == run'[r].sends[Len(run'[r].sends)]

Unsent(r) ==
    {v \in Range(run[r].pending) :
        \A i \in DOMAIN run[r].sends : v \notin Range(run[r].sends[i].videos)}

SendCount(sends, c) == Cardinality({i \in DOMAIN sends : sends[i].cursor = c})

\* C19 (batch retry bound): a batch whose request fails as a whole is sent
\* again once; when that request fails too the batch is skipped, its videos
\* stay unscored and the run goes on with the next batch; no batch is sent
\* more than twice, and only a failed batch is sent again.
C19_RetryBound ==
    /\ [][\A r \in Reqs :
            (SendsNow(r) /\ ~LastSent(r).ok)
                => /\ pc'[r] = "score" /\ ~run'[r].budget_exceeded
                   /\ IF SendCount(run'[r].sends, LastSent(r).cursor) = 1
                      THEN \* the next request of the run is for the same batch
                           /\ run'[r].cursor = run[r].cursor
                           /\ run'[r].attempts = 1
                      ELSE \* skipped: on to the next batch
                           /\ run'[r].cursor = run[r].cursor + BatchSize
                           /\ run'[r].attempts = 0
                           /\ \A v \in Range(LastSent(r).videos) : run'[r].scores[v] = <<>>]_vars
    /\ [](\A r \in Reqs :
            /\ \A e \in Range(run[r].sends) : SendCount(run[r].sends, e.cursor) <= 2
            /\ \A i \in 1..(Len(run[r].sends) - 1) :
                  LET a == run[r].sends[i]
                      b == run[r].sends[i + 1]
                  IN  /\ (a.cursor = b.cursor) => (~a.ok /\ a.videos = b.videos)
                      /\ (~a.ok /\ SendCount(SubSeq(run[r].sends, 1, i), a.cursor) = 1)
                            => a.cursor = b.cursor
            /\ run[r].attempts > 0
                  => /\ pc[r] = "score" /\ run[r].cursor <= Len(run[r].pending)
                     /\ ~run[r].sends[Len(run[r].sends)].ok)

\* a run whose first batch failed twice and was skipped went on to send
\* the next batch, and finished with the videos of the first unscored
C19_Witness ==
    \E r \in Reqs :
        /\ pc[r] = "done" /\ Len(run[r].sends) = 3
        /\ ~run[r].sends[1].ok /\ ~run[r].sends[2].ok /\ run[r].sends[3].ok
        /\ run[r].sends[1].cursor = 1 /\ run[r].sends[2].cursor = 1
        /\ run[r].sends[3].cursor = 1 + BatchSize
        /\ \A v \in Range(run[r].sends[1].videos) : run[r].scores[v] = <<>>

\* the final score the Ranker gave a candidate of the ranking under test
RankedScore(v) ==
    final_score(v, fnIn.rel[v], fnIn.feed_first /\ v = fnIn.ids[1], fnIn.timeframe)

\* C20 (ranking order and tie-break): the ranked output holds the
\* candidates ordered by final_score descending; of two with equal
\* final_score the one with more views comes first, and of two with equal
\* views too the one published more recently.
C20_RankOrder ==
    (fnIn.kind = "rank" /\ fnOut.ranked # <<>>)
        => LET ranked == fnOut.ranked[1]
           IN  /\ Len(ranked) = Len(fnIn.ids)
               /\ Range(ranked) = Range(fnIn.ids)
               /\ \A p, q \in DOMAIN ranked :
                    p < q =>
                      LET a == ranked[p]
                          b == ranked[q]
                      IN  /\ RankedScore(a) >= RankedScore(b)
                          /\ RankedScore(a) = RankedScore(b)
                                => VideoData[a].views >= VideoData[b].views
                          /\ ( /\ RankedScore(a) = RankedScore(b)
                               /\ VideoData[a].views = VideoData[b].views )
                                => VideoData[a].age_hours <= VideoData[b].age_hours

\* collected in the reverse order, four candidates were ranked by the
\* score (v6 before v4), by the views at equal score (v6 before v5) and by
\* the publish time at equal score and views (v4 before v3)
C20_Witness ==
    /\ fnIn.kind = "rank" /\ fnOut.ranked = << <<"v6", "v5", "v4", "v3">> >>
    /\ fnIn.ids = <<"v3", "v4", "v5", "v6">>
    /\ RankedScore("v6") = RankedScore("v5")
    /\ RankedScore("v5") > RankedScore("v4")
    /\ RankedScore("v4") = RankedScore("v3")

\* C21 (score history): a scoring run that stores a score for a (video,
\* country) pair adds a row for the pair and leaves the rows the pair
\* already has unchanged.
C21_ScoreHistory ==
    [][\A r \in Reqs, v \in Videos :
        (SendsNow(r) /\ LastSent(r).ok /\ v \in Range(LastSent(r).videos))
            => LET old == relevance_table[req[r].country][v]
                   new == relevance_table'[req[r].country][v]
               IN  /\ Len(new) = Len(old) + 1
                   /\ SubSeq(new, 1, Len(old)) = old]_vars

\* C22 (overall timeout): a request whose overall wall-clock budget ran
\* out before its stages had completed is answered a result that is
\* flagged as degraded.
C22_TimeoutDegraded ==
    \A r \in Reqs :
        (run[r].overdue /\ response[r] # <<>>)
            => /\ Answer(r).success
               /\ "degraded" \in DOMAIN Answer(r).metadata
               /\ Answer(r).metadata.degraded

\* ---------------------------------------------------------------- home page
\* a call of analyzeTrending settles in this step
Settles(call) == call \in homePage.inflight /\ call \notin homePage'.inflight

\* C23: a search ends with isLoading false and results set -- the server's
\* response, or the failure record built from the submitted form when the call
\* throws -- and results is null for as long as a request is in flight.
C23_SearchOutcome ==
    [][/\ homePage'.inflight # {} => homePage'.results = <<>>
       /\ \A call \in homePage.inflight :
            Settles(call)
                => /\ ~homePage'.isLoading
                   /\ homePage'.results # <<>>
                   /\ homePage'.results[1].query = call.params.query
                   /\ homePage'.results[1].country = call.params.country
                   /\ homePage'.results[1].timeframe = call.params.timeframe
                   /\ ~homePage'.results[1].success
                        => /\ homePage'.results[1].results = 0
                           /\ homePage'.results[1].metadata.total_analyzed = 0
                           /\ homePage'.results[1].metadata.llm_analyzed = 0
                           /\ ~homePage'.results[1].metadata.cache_hit]_vars

\* C24: at most one trending-analysis request is in flight from the home page,
\* and the results shown are those of the search started last.
C24_OneSearchInFlight ==
    /\ Cardinality(homePage.inflight) <= 1
    /\ homePage.results # <<>> => homePage.shown = homePage.searches

\* C28: every search started from the form or by Try Again carries limit 10,
\* whatever limit the form data hold.
C28_LimitAlwaysTen ==
    /\ \A params \in homePage.sent : params.limit = 10
    /\ \A call \in homePage.inflight : call.params.limit = 10

\* a form whose limit is 25 has started a search, its failure is shown, and
\* Try Again has started another
C28_Witness ==
    /\ homePage.formData.limit = 25
    /\ homePage.searches = 2
    /\ homePage.formData.query = <<>>
    /\ \E call \in homePage.inflight : call.id = 2 /\ call.params.limit = 10

\* how often a list holds x
Occurrences(list, x) == Cardinality({i \in DOMAIN list : list[i] = x})

C25_DataOfSelectedPeriod ==
    (panel.mounted /\ panel.inflight = {})
        => /\ ~panel.isLoading
           /\ (~panel.error /\ panel.costData # <<>>)
                => panel.costData[1] = panel.days

\* ------------------------------------------------------------------ debounce
\* call k of the debounced function ends a sequence of calls: no call follows
\* it less than the delay later
EndsSequence(k) ==
    \/ k = Len(debouncer.calls) /\ debouncer.now >= debouncer.calls[k].at + Delay
    \/ k < Len(debouncer.calls)
        /\ debouncer.calls[k + 1].at >= debouncer.calls[k].at + Delay

\* the invocations of func that ran after call k and before call k + 1
InvokedAfter(k) ==
    {i \in DOMAIN debouncer.invocations : debouncer.invocations[i].after = k}

\* C26: in a sequence of calls each less than the delay after the one before,
\* func is not invoked during the sequence and is invoked exactly once, the
\* delay after the last call and with its arguments; earlier pending
\* invocations are cancelled.
C26_Debounce ==
    /\ \A k \in DOMAIN debouncer.calls :
        IF EndsSequence(k)
        THEN \/ /\ Cardinality(InvokedAfter(k)) = 1
                /\ \A i \in InvokedAfter(k) :
                     /\ debouncer.invocations[i].args = debouncer.calls[k].args
                     /\ debouncer.invocations[i].at = debouncer.calls[k].at + Delay
             \/ /\ InvokedAfter(k) = {}
                /\ k = Len(debouncer.calls)
                /\ debouncer.now = debouncer.calls[k].at + Delay
                /\ debouncer.timers = {[id |-> debouncer.timeoutId,
                                        due |-> debouncer.now,
                                        args |-> debouncer.calls[k].args]}
        ELSE InvokedAfter(k) = {}
    /\ Cardinality(debouncer.timers) <= 1
    /\ Len(debouncer.invocations) <= Len(debouncer.calls)

\* three calls in a row, each one tick after the one before and the last with
\* other arguments, then one invocation; a later call has been invoked too
C26_Witness ==
    /\ Len(debouncer.calls) = 4 /\ Len(debouncer.invocations) = 2
    /\ debouncer.calls[2].at = debouncer.calls[1].at + 1
    /\ debouncer.calls[3].at = debouncer.calls[2].at + 1
    /\ debouncer.calls[3].args # debouncer.calls[2].args
    /\ debouncer.invocations[1].after = 3

\* ---------------------------------------------------------------- API client
\* the first of the texts that is present and not empty, else the default
FirstText(texts, default) ==
    IF \E i \in DOMAIN texts : texts[i] \notin {<<>>, <<"">>}
    THEN texts[CHOOSE i \in DOMAIN texts :
                  /\ texts[i] \notin {<<>>, <<"">>}
                  /\ \A j \in 1..(i - 1) : texts[j] \in {<<>>, <<"">>}]
    ELSE <<default>>

\* C27: a failed API call reaches the caller as a TrendingAnalysisError: with
\* the server's status and the response's detail, else its message, else
\* 'Server error' when a response was received; with 503 when the request got
\* no response; with 500 otherwise.
C27_ErrorMapping ==
    (fnIn.kind = "reject" /\ fnOut.thrown # <<>>)
        => LET error == fnIn.error
               thrown == fnOut.thrown[1]
           IN  /\ thrown.name = "TrendingAnalysisError"
               /\ error.response # <<>>
                    => /\ thrown.status = error.response[1].status
                       /\ thrown.message =
                            IF error.response[1].data = <<>> THEN <<"Server error">>
                            ELSE FirstText(<<error.response[1].data[1].detail,
                                             error.response[1].data[1].message>>,
                                           "Server error")
               /\ (error.response = <<>> /\ error.request) => thrown.status = 503
               /\ (error.response = <<>> /\ ~error.request) => thrown.status = 500

\* a 429 whose body has an empty detail and a message has been mapped
C27_Witness ==
    /\ fnIn.kind = "reject" /\ fnOut.thrown # <<>>
    /\ fnIn.error.response # <<>>
    /\ fnIn.error.response[1].status = 429
    /\ fnIn.error.response[1].data # <<>>
    /\ fnIn.error.response[1].data[1].detail = <<"">>
    /\ fnOut.thrown[1].message = <<"Too many requests">>

\* C30: getBackendInfo returns the data of GET '/' when it succeeds, else
\* asks GET '/api/mvp' once and returns its data, and when both fail throws
\* the error of GET '/'.
C30_BackendInfoFallback ==
    (fnIn.kind = "info" /\ fnOut.info # <<>>)
        => LET call == fnOut.info[1].call
           IN  /\ fnIn.root.ok
                    => /\ call.returned = <<fnIn.root.data>>
                       /\ call.thrown = <<>>
                       /\ call.requests = <<"/">>
               /\ (~fnIn.root.ok /\ fnIn.fallback.ok)
                    => /\ call.returned = <<fnIn.fallback.data>>
                       /\ call.thrown = <<>>
                       /\ call.requests = <<"/", "/api/mvp">>
               /\ (~fnIn.root.ok /\ ~fnIn.fallback.ok)
                    => /\ call.returned = <<>>
                       /\ call.thrown = <<ApiCallFails(fnIn.root.error)>>
                       /\ call.requests = <<"/", "/api/mvp">>

\* both requests have failed, GET '/' with a 503 and the fallback without a
\* response, and the 503 was thrown
C30_Witness ==
    /\ fnIn.kind = "info" /\ fnOut.info # <<>>
    /\ ~fnIn.root.ok /\ ~fnIn.fallback.ok
    /\ fnIn.root.error.response # <<>>
    /\ fnIn.root.error.response[1].status = 503
    /\ fnIn.fallback.error.response = <<>>
    /\ fnOut.info[1].call.thrown # <<>>
    /\ fnOut.info[1].call.thrown[1].status = 503
    /\ fnOut.info[1].error = <<"Backend unavailable">>
====
